---------------------------- MODULE Spec2Model ----------------------------
(***************************************************************************)
(* Model of src/myProcessor.py (wasdi-cloud/water_depths): the flood-map   *)
(* classifier processFloodMap, the compositor processOutputArray, the      *)
(* writer saveOutputWithNoData, the nearest-neighbour alignment of the     *)
(* external permanent-water mask, and the launcher run().                  *)
(*                                                                         *)
(* Specifications:                                                         *)
(*   Spec          the launcher run(), one action per numbered section     *)
(*   SpecCompose   processOutputArray on arbitrary grids and masks         *)
(*   SpecClassify  processFloodMap on arbitrary grids, dtypes and names    *)
(*   SpecAlign     binarisation + reproject(..., Resampling.nearest)       *)
(***************************************************************************)
EXTENDS Integers, Sequences, FiniteSets, TLC

VARIABLES params, pc, status, info, loc, jobs, ops, cmp, cls, aln

vars == <<params, pc, status, info, loc, jobs, ops, cmp, cls, aln>>
runVars == <<params, pc, status, info, loc, jobs, ops>>

(***************************************************************************)
(* Bounds of the model.                                                    *)
(***************************************************************************)
\* widest grid (cells in a row) of the pure-function specifications
MaxCols == 2
\* widest grid of the launcher specification (0, 2 and 3 must fit together)
MaxRunCols == 3
\* largest pixel size / origin offset of the alignment geometry
MaxRes == 2

(***************************************************************************)
(* Values.  Cell values are integers; NaN and Python's None are two codes  *)
(* outside the range of every cell value used, compared only through the   *)
(* operators below.                                                        *)
(***************************************************************************)
NaN == 1000000001
NoneVal == 1000000002

Abs(v) == IF v < 0 THEN 0 - v ELSE v

\* numpy's float32 conversion of an integer-valued cell (|v| < 2^25): exact up
\* to 2^24, above it the spacing is 2 and ties round to the even mantissa
F32(v) ==
    IF v = NaN THEN NaN
    ELSE IF Abs(v) <= 16777216 THEN v
    ELSE LET a == Abs(v)
             q == a \div 2
             m == IF a % 2 = 0 THEN a ELSE IF q % 2 = 0 THEN 2 * q ELSE 2 * q + 2
         IN  IF v < 0 THEN 0 - m ELSE m

\* numpy's elementwise `a != b`: NaN differs from everything, itself included,
\* and an array compared with None differs everywhere
NotEqual(a, b) == IF b = NoneVal \/ a = NaN \/ b = NaN THEN TRUE ELSE a # b

\* numpy's elementwise `a == k` for an integer constant k
CellEq(a, k) == a # NaN /\ a = k

\* dict.get(key, default)
DictGet(d, k, default) == IF k \in DOMAIN d THEN d[k] ELSE default

(***************************************************************************)
(* Grids: a shape <<rows, cols>> and the cells in row-major order.  An     *)
(* optional mask is a grid of booleans, or NoMask for Python's None.       *)
(***************************************************************************)
NCells(shape) == shape[1] * shape[2]

Grid(shape, cells) == [isNone |-> FALSE, shape |-> shape, cells |-> cells]

NoMask == [isNone |-> TRUE, shape |-> <<0, 0>>, cells |-> <<>>]

MapCells(g, F(_)) == Grid(g.shape, [i \in 1..NCells(g.shape) |-> F(g.cells[i])])

ShapesUpTo(n) == {<<1, c>> : c \in 1..n}

GridsOver(shapes, values) ==
    UNION {{Grid(s, cells) : cells \in [1..NCells(s) -> values]} : s \in shapes}

(***************************************************************************)
(* processOutputArray (lines 113-139).  The result is a float32 grid, or   *)
(* the IndexError numpy raises when a boolean mask's shape differs from    *)
(* the indexed array's.                                                    *)
(***************************************************************************)
Raised == [err |-> TRUE, grid |-> NoMask]
Returned(g) == [err |-> FALSE, grid |-> g]

\* output[mask] = values[mask], stored in a float32 array
AssignWhere(output, mask, values) ==
    Grid(output.shape,
         [i \in 1..NCells(output.shape) |->
            IF mask.cells[i] THEN F32(values.cells[i]) ELSE output.cells[i]])

\* output[mask] = scalar
AssignScalarWhere(output, mask, scalar) ==
    Grid(output.shape,
         [i \in 1..NCells(output.shape) |->
            IF mask.cells[i] THEN F32(scalar) ELSE output.cells[i]])

\* the default flooded mask: aiRawData != pProfile.get('nodata', np.nan)
ValidMask(aiRawData, pProfile) ==
    MapCells(aiRawData, LAMBDA v : NotEqual(v, DictGet(pProfile, "nodata", NaN)))

\* mutant: permanent water assigned before the flooded cells, so flooded wins
processOutputArrayFloodedWins(aiRawData, pProfile, abPermanentWaterMask, abFloodedMask, iPermanentWaterNoDataParam) ==
    LET init == MapCells(aiRawData, LAMBDA v : NaN)
        fl == IF abFloodedMask.isNone THEN ValidMask(aiRawData, pProfile)
              ELSE abFloodedMask
    IN  IF fl.shape # aiRawData.shape THEN Raised
        ELSE IF ~abPermanentWaterMask.isNone
                /\ abPermanentWaterMask.shape # aiRawData.shape THEN Raised
        ELSE LET withPw == IF abPermanentWaterMask.isNone THEN init
                           ELSE AssignScalarWhere(init, abPermanentWaterMask,
                                                  iPermanentWaterNoDataParam)
             IN  Returned(AssignWhere(withPw, fl, aiRawData))

processOutputArray(aiRawData, pProfile, abPermanentWaterMask, abFloodedMask, iPermanentWaterNoDataParam) ==
    LET output == MapCells(aiRawData, LAMBDA v : NaN)
        fl == IF abFloodedMask.isNone THEN ValidMask(aiRawData, pProfile)
              ELSE abFloodedMask
    IN  IF fl.shape # aiRawData.shape THEN Raised
        ELSE LET flooded == AssignWhere(output, fl, aiRawData)
             IN  IF abPermanentWaterMask.isNone THEN Returned(flooded)
                 ELSE IF abPermanentWaterMask.shape # aiRawData.shape THEN Raised
                 ELSE Returned(AssignScalarWhere(flooded, abPermanentWaterMask,
                                                 iPermanentWaterNoDataParam))

(***************************************************************************)
(* File names: sequences of tokens, "_" and ".tif" being tokens of their   *)
(* own, so that str.replace('.tif', ...), str.split('_') and string        *)
(* equality are computed on the text and not assumed.                      *)
(***************************************************************************)
NO_WATER == <<"NO", "_", "WATER">>
\* Python's None where a file name is expected
PyNone == <<"<None>">>
\* a local variable never assigned
Unbound == <<"<unbound>">>

RECURSIVE Replace(_, _, _)
\* s.replace(tok, new), tok a token and new a token sequence
Replace(s, tok, new) ==
    IF s = <<>> THEN <<>>
    ELSE (IF Head(s) = tok THEN new ELSE <<Head(s)>>) \o Replace(Tail(s), tok, new)

RECURSIVE SplitHead(_, _)
\* s.split(tok)[0]
SplitHead(s, tok) ==
    IF s = <<>> \/ Head(s) = tok THEN <<>>
    ELSE <<Head(s)>> \o SplitHead(Tail(s), tok)

Contains(s, tok) == \E i \in 1..Len(s) : s[i] = tok

\* Python truthiness of an optional string
Truthy(s) == s # PyNone /\ s # <<>>

\* sInputFile.replace('.tif', '_converted.tif')
ConvertedName(sInputFile) == Replace(sInputFile, ".tif", <<"_", "converted", ".tif">>)

\* sFloodMapName.split('_')[0] if "_" in sFloodMapName else sFloodMapName.replace('.tif', '')
BaseName(sFloodMapName) ==
    IF Contains(sFloodMapName, "_") THEN SplitHead(sFloodMapName, "_")
    ELSE Replace(sFloodMapName, ".tif", <<>>)

(***************************************************************************)
(* Raster data types: the value range of each, numpy's astype (C wrap for  *)
(* integers, rounding for float32) and rasterio's refusal to create a      *)
(* dataset whose nodata value is outside the range of its dtype.           *)
(***************************************************************************)
DTypes == {"uint8", "int8", "int16", "float32"}

DTypeBits(dtype) == IF dtype = "int16" THEN 16 ELSE 8

DTypeSigned(dtype) == dtype \in {"int8", "int16"}

Pow2(n) == IF n = 8 THEN 256 ELSE 65536

AsType(v, dtype) ==
    IF dtype = "float32" THEN F32(v)
    ELSE LET m == Pow2(DTypeBits(dtype))
             w == v % m
         IN  IF DTypeSigned(dtype) /\ w >= m \div 2 THEN w - m ELSE w

InDTypeRange(v, dtype) == dtype = "float32" \/ AsType(v, dtype) = v

(***************************************************************************)
(* processFloodMap (lines 40-110).  fault is where an exception is raised  *)
(* inside the try block: "none", "write" (rasterio cannot create or write  *)
(* the converted file) or "register" (wasdi.addFileToWASDI raises).        *)
(* The result is the returned pair, the converted grid and the file        *)
(* operations performed before returning.                                  *)
(***************************************************************************)
iNoDataValue == 255

Faults == {"none", "write", "register"}

Op(kind, name) == [op |-> kind, name |-> name]

\* mutant: only flooded cells (3) become water, permanent water (2) falls to the default
ReclassifyDropsPermanent(v) ==
    IF CellEq(v, 0) THEN iNoDataValue
    ELSE IF CellEq(v, 3) THEN 1
    ELSE 0

\* np.select([aiData == 0, (aiData == 2) | (aiData == 3)], [iNoDataValue, 1], default=0)
Reclassify(v) ==
    IF CellEq(v, 0) THEN iNoDataValue
    ELSE IF CellEq(v, 2) \/ CellEq(v, 3) THEN 1
    ELSE 0

\* mutant: the mask takes every water cell, flooded ones included
PermanentWaterMaskTakesFlooded(aiData) == MapCells(aiData, LAMBDA v : IF CellEq(v, 2) \/ CellEq(v, 3) THEN 1 ELSE 0)

\* (aiData == 2).astype(np.uint8)
PermanentWaterMaskOf(aiData) == MapCells(aiData, LAMBDA v : IF CellEq(v, 2) THEN 1 ELSE 0)

\* mutant: any non-zero cell counts as water (np.any(aiData))
HasWaterAnyNonZero(aiData, bThreeState) ==
    \E i \in 1..NCells(aiData.shape) : ~CellEq(aiData.cells[i], 0)

\* np.any((aiData == 2) | (aiData == 3))  /  np.any(aiData == 1)
HasWater(aiData, bThreeState) ==
    \E i \in 1..NCells(aiData.shape) :
        IF bThreeState THEN CellEq(aiData.cells[i], 2) \/ CellEq(aiData.cells[i], 3)
        ELSE CellEq(aiData.cells[i], 1)

ClassifierResult(name, mask, converted, fileOps) == [name |-> name, mask |-> mask, converted |-> converted, ops |-> fileOps]

processFloodMap(sInputFile, oFloodMapInfo, bThreeState, fault) ==
    LET aiData == oFloodMapInfo.data
        dtype == oFloodMapInfo.dtype
    IN  IF ~HasWater(aiData, bThreeState)
        THEN ClassifierResult(NO_WATER, NoMask, NoMask, <<>>)
        ELSE IF ~bThreeState
        THEN ClassifierResult(sInputFile, NoMask, NoMask, <<>>)
        ELSE LET sModFile == ConvertedName(sInputFile)
                 aiModifiedData == MapCells(aiData, LAMBDA v : AsType(Reclassify(v), dtype))
             IN  IF fault = "write" \/ ~InDTypeRange(iNoDataValue, dtype)
                 THEN ClassifierResult(PyNone, NoMask, NoMask, <<>>)
                 ELSE IF fault = "register"
                 THEN ClassifierResult(PyNone, NoMask, aiModifiedData, <<Op("write", sModFile)>>)
                 ELSE ClassifierResult(sModFile, PermanentWaterMaskOf(aiData), aiModifiedData,
                                       <<Op("write", sModFile), Op("register", sModFile)>>)

(***************************************************************************)
(* The external permanent-water mask (run, section 3 and case 3 of section *)
(* 9).  Grids are north-up rows; a geotransform is the x origin and the    *)
(* pixel size.  reproject(..., dst_nodata=0, resampling=Resampling.nearest)*)
(* gives each destination pixel the source pixel its centre falls in, and  *)
(* dst_nodata where the centre is outside the source or the source pixel   *)
(* is the source's nodata.                                                 *)
(***************************************************************************)
Transform(x0, res) == [x0 |-> x0, res |-> res]

\* mutant: the land-cover codes are written to the mask file as they are
BinarizeKeepsCodes(aiFullWCData) == MapCells(aiFullWCData, LAMBDA v : v)

\* (aiFullWCData == 80).astype(np.uint8)
Binarize(aiFullWCData) == MapCells(aiFullWCData, LAMBDA v : IF CellEq(v, 80) THEN 1 ELSE 0)

\* 0-based source column under the centre of destination column j (1-based)
SourceColumn(j, srcT, dstT) ==
    (2 * dstT.x0 + (2 * j - 1) * dstT.res - 2 * srcT.x0) \div (2 * srcT.res)

Reproject(src, srcT, srcNodata, dstShape, dstT, dstNodata) ==
    Grid(dstShape,
         [j \in 1..NCells(dstShape) |->
            LET k == SourceColumn(j, srcT, dstT)
            IN  IF k < 0 \/ k >= src.shape[2] THEN dstNodata
                ELSE IF src.cells[k + 1] = srcNodata THEN dstNodata
                ELSE src.cells[k + 1]])

\* aiAlignedMask == 1
IsOne(aiAlignedMask) == MapCells(aiAlignedMask, LAMBDA v : CellEq(v, 1))

\* the mask file written in section 3: data, geotransform, nodata=0
MaskFile(data, transform) == [data |-> data, transform |-> transform, nodata |-> 0]

\* lines 349-355: the mask file resampled onto the raw water-depth grid
AlignMask(maskFile, aiRawShape, pWDMTransform) ==
    Reproject(maskFile.data, maskFile.transform, maskFile.nodata, aiRawShape, pWDMTransform, 0)

(***************************************************************************)
(* Idle values: what a specification leaves of the other specifications'   *)
(* variables.                                                              *)
(***************************************************************************)
Idle == [phase |-> "idle"]

RunIdle ==
    /\ params = Idle /\ pc = "idle" /\ status = "idle" /\ info = Idle
    /\ loc = Idle /\ jobs = <<>> /\ ops = <<>>

(***************************************************************************)
(* SpecCompose: processOutputArray applied to every raw grid, profile,     *)
(* optional masks and sentinel of the bounded domain.                      *)
(***************************************************************************)
RawValues == {NaN, -9999, 0, 5, 16777217}

NoDataValues == {NoneVal, NaN, -9999, 0}

Sentinels == {-9999, 5, 16777217}

Profiles == {[driver |-> "GTiff"]} \cup {[driver |-> "GTiff", nodata |-> n] : n \in NoDataValues}

OptionalMasks == {NoMask} \cup GridsOver(ShapesUpTo(MaxCols), BOOLEAN)

InitCompose ==
    /\ RunIdle /\ cls = Idle /\ aln = Idle
    /\ \E raw \in GridsOver(ShapesUpTo(MaxCols), RawValues), pProfile \in Profiles,
          pw \in OptionalMasks, fl \in OptionalMasks, sentinel \in Sentinels :
          cmp = [phase |-> "input", raw |-> raw, profile |-> pProfile, pw |-> pw,
                 fl |-> fl, sentinel |-> sentinel, result |-> Raised]

Compose ==
    /\ cmp.phase = "input"
    /\ cmp' = [cmp EXCEPT !.phase = "output",
                           !.result = processOutputArray(cmp.raw, cmp.profile, cmp.pw, cmp.fl, cmp.sentinel)]
    /\ UNCHANGED <<runVars, cls, aln>>

NextCompose == Compose

SpecCompose == InitCompose /\ [][NextCompose]_vars

\* the cell was composited: the call returned a grid
Composited == cmp.phase = "output" /\ ~cmp.result.err

\* cell i qualifies as flooded: flooded mask true, or, with no flooded mask,
\* raw value different from the profile's nodata value
QualifiesFlooded(i) ==
    IF cmp.fl.isNone THEN NotEqual(cmp.raw.cells[i], DictGet(cmp.profile, "nodata", NaN))
    ELSE cmp.fl.cells[i]

IsPermanent(i) == ~cmp.pw.isNone /\ cmp.pw.cells[i]

ClassValues == {0, 1, 2, 3, 4}

CellValuesOf(dtype) == IF dtype = "float32" THEN ClassValues \cup {NaN} ELSE ClassValues

FileNames == {<<"flood", ".tif">>, <<"S1", "_", "flood", ".tif">>, NO_WATER}

FloodMapInfo(data, dtype) == [data |-> data, dtype |-> dtype]

InitClassify ==
    /\ RunIdle /\ cmp = Idle /\ aln = Idle
    /\ \E dtype \in DTypes, sInputFile \in FileNames, bThreeState \in BOOLEAN, fault \in Faults :
          \E data \in GridsOver(ShapesUpTo(MaxCols), CellValuesOf(dtype)) :
             cls = [phase |-> "input", sInputFile |-> sInputFile,
                    info |-> FloodMapInfo(data, dtype), bThreeState |-> bThreeState,
                    fault |-> fault,
                    result |-> ClassifierResult(Unbound, NoMask, NoMask, <<>>)]

Classify ==
    /\ cls.phase = "input"
    /\ cls' = [cls EXCEPT !.phase = "output",
                           !.result = processFloodMap(cls.sInputFile, cls.info, cls.bThreeState, cls.fault)]
    /\ UNCHANGED <<runVars, cmp, aln>>

NextClassify == Classify

SpecClassify == InitClassify /\ [][NextClassify]_vars

ClsCells == 1..NCells(cls.info.data.shape)

ClsCell(i) == cls.info.data.cells[i]

\* cells of the input grid holding the integer k
CellsEqual(k) == {i \in ClsCells : ClsCell(i) # NaN /\ ClsCell(i) = k}

\* cells where a returned 0/1 mask is set
MaskSet(mask) == {i \in 1..NCells(mask.shape) : mask.cells[i] = 1}

\* the classifier returned a permanent-water mask on the three-state path
MaskReturned == cls.phase = "output" /\ cls.bThreeState /\ ~cls.result.mask.isNone

\* the classifier wrote a converted grid
ConvertedWritten ==
    /\ cls.phase = "output"
    /\ \E k \in 1..Len(cls.result.ops) : cls.result.ops[k].op = "write"

\* C2 as stated: the returned mask is exactly the cells equal to 2 and is
\* disjoint from the flooded cells (value 1) of the reclassified grid.
C2_AsStated ==
    MaskReturned =>
        /\ MaskSet(cls.result.mask) = CellsEqual(2)
        /\ MaskSet(cls.result.mask) \cap MaskSet(cls.result.converted) = {}

\* C2 amended: a returned mask has the grid's shape and is 1 exactly at the
\* cells equal to 2 and 0 elsewhere; it is disjoint from the cells whose
\* input value is 3, and every mask cell is a water cell (value 1) of the
\* reclassified grid, which merges 2 and 3.
C2_MaskIsPermanentWater ==
    MaskReturned =>
        /\ cls.result.mask.shape = cls.info.data.shape
        /\ \A i \in ClsCells : cls.result.mask.cells[i] \in {0, 1}
        /\ MaskSet(cls.result.mask) = CellsEqual(2)
        /\ MaskSet(cls.result.mask) \cap CellsEqual(3) = {}
        /\ MaskSet(cls.result.mask) \subseteq MaskSet(cls.result.converted)

\* a mask was returned for a grid holding both a 2 and a 3
C2_Witness == MaskReturned /\ CellsEqual(2) # {} /\ CellsEqual(3) # {}

\* C3: on the three-state path, for a grid with a cell equal to 2 or 3, the
\* converted grid that is written has the input's shape and is the cell-wise
\* image of the input under 0 -> 255, 2 or 3 -> 1, anything else -> 0.
C3_Reclassification ==
    (ConvertedWritten /\ cls.bThreeState /\ CellsEqual(2) \cup CellsEqual(3) # {}) =>
        /\ cls.result.converted.shape = cls.info.data.shape
        /\ \A i \in ClsCells :
              /\ i \in CellsEqual(0) => cls.result.converted.cells[i] = 255
              /\ i \in CellsEqual(2) \cup CellsEqual(3) => cls.result.converted.cells[i] = 1
              /\ i \notin CellsEqual(0) \cup CellsEqual(2) \cup CellsEqual(3)
                    => cls.result.converted.cells[i] = 0

\* a converted grid was written for a grid holding a 0, a 2 and another value
C3_Witness ==
    /\ ConvertedWritten /\ cls.bThreeState
    /\ CellsEqual(2) # {}
    /\ \E i \in ClsCells : i \notin CellsEqual(0) \cup CellsEqual(2) \cup CellsEqual(3)

\* the grid has no water cell for the path taken
NoWaterCell ==
    IF cls.bThreeState THEN CellsEqual(2) \cup CellsEqual(3) = {} ELSE CellsEqual(1) = {}

\* C4: for every grid with no water cell (no 2 or 3 on the three-state path,
\* no 1 on the two-state path) processFloodMap returns ("NO_WATER", None) and
\* has written and registered no file.
C4_NoWaterSentinel ==
    (cls.phase = "output" /\ NoWaterCell) =>
        /\ cls.result.name = NO_WATER
        /\ cls.result.mask.isNone
        /\ cls.result.ops = <<>>

\* the classifier returned for a three-state grid of land and two-state water
\* only, under a fault that a later step would have hit
C4_Witness ==
    /\ cls.phase = "output" /\ NoWaterCell /\ cls.bThreeState
    /\ CellsEqual(1) # {} /\ cls.fault = "write"

(***************************************************************************)
(* SpecAlign: the land-cover grid binarised into the mask file (section 3) *)
(* and the mask file resampled onto the raw water-depth grid (case 3), for *)
(* every pair of source and destination geometries of the bounded domain.  *)
(***************************************************************************)
WorldCoverValues == {0, 10, 80}

Transforms == {Transform(x0, res) : x0 \in 0..MaxRes, res \in 1..MaxRes}

InitAlign ==
    /\ RunIdle /\ cmp = Idle /\ cls = Idle
    /\ \E wc \in GridsOver(ShapesUpTo(MaxCols), WorldCoverValues), srcT \in Transforms,
          rawShape \in ShapesUpTo(MaxCols), dstT \in Transforms :
          aln = [phase |-> "worldcover", wc |-> wc, srcT |-> srcT, rawShape |-> rawShape,
                 dstT |-> dstT, maskFile |-> MaskFile(NoMask, srcT), aligned |-> NoMask]

\* lines 223-230: read the land-cover file, binarise, write the mask file
WriteMask ==
    /\ aln.phase = "worldcover"
    /\ aln' = [aln EXCEPT !.phase = "maskfile",
                           !.maskFile = MaskFile(Binarize(aln.wc), aln.srcT)]
    /\ UNCHANGED <<runVars, cmp, cls>>

\* lines 349-355: resample the mask file onto the raw grid
Align ==
    /\ aln.phase = "maskfile"
    /\ aln' = [aln EXCEPT !.phase = "aligned",
                           !.aligned = AlignMask(aln.maskFile, aln.rawShape, aln.dstT)]
    /\ UNCHANGED <<runVars, cmp, cls>>

NextAlign == WriteMask \/ Align

SpecAlign == InitAlign /\ [][NextAlign]_vars

\* twice the x coordinate of the centre of destination column j
Centre2(j) == 2 * aln.dstT.x0 + (2 * j - 1) * aln.dstT.res

\* the centre of destination column j lies in source column k (1-based)
CentreIn(j, k) ==
    /\ 2 * aln.srcT.x0 + 2 * (k - 1) * aln.srcT.res <= Centre2(j)
    /\ Centre2(j) < 2 * aln.srcT.x0 + 2 * k * aln.srcT.res

SrcCols == 1..aln.maskFile.data.shape[2]

\* C9: the resampled mask has exactly the raw grid's shape, every cell is 0 or
\* 1, a cell whose centre lies in a source-mask cell is a copy of that cell,
\* and a cell outside the source mask's coverage is 0.
C9_AlignedMaskBinary ==
    aln.phase = "aligned" =>
        /\ aln.aligned.shape = aln.rawShape
        /\ \A j \in 1..NCells(aln.rawShape) :
              /\ aln.aligned.cells[j] \in {0, 1}
              /\ \A k \in SrcCols : CentreIn(j, k) => aln.aligned.cells[j] = aln.maskFile.data.cells[k]
              /\ (\A k \in SrcCols : ~CentreIn(j, k)) => aln.aligned.cells[j] = 0

\* a mask resampled between grids of different pixel size, shape and origin,
\* with a copied water cell and a cell outside the source's coverage
C9_Witness ==
    /\ aln.phase = "aligned"
    /\ aln.srcT.res # aln.dstT.res /\ aln.srcT.x0 # aln.dstT.x0
    /\ aln.rawShape # aln.maskFile.data.shape
    /\ \E j \in 1..NCells(aln.rawShape) : aln.aligned.cells[j] = 1
    /\ \E j \in 1..NCells(aln.rawShape) : \A k \in SrcCols : ~CentreIn(j, k)

(***************************************************************************)
(* Spec: the launcher run() (lines 165-400), one action per numbered       *)
(* section.  Remote processors, the file catalog and the raster files read *)
(* back are the environment: their answers are drawn from bounded sets.    *)
(* jobs is the sequence of remote processors executed with the status      *)
(* waitProcess returned; ops is the sequence of files written, registered  *)
(* (addFileToWASDI), saved (saveOutputWithNoData) and deleted.             *)
(***************************************************************************)
DefaultSentinel == -9999

JobStates == {"DONE", "ERROR", "STOPPED"}

\* mutant: only the status ERROR counts as a failure
JobFailedOnlyOnError(sState) == sState = "ERROR"

\* sState != "DONE"
JobFailed(sState) == sState # "DONE"

Job(name, sState) == [name |-> name, status |-> sState]

SaveOp(name, afData) == [op |-> "save", name |-> name, data |-> afData]

UnboundArray == NoMask

RunFileNames == {<<>>, <<"S1", "_", "flood", ".tif">>, NO_WATER}

DemParams == {<<>>, <<"dem", ".tif">>}

\* classification grids of the launcher: the value domain of the flag given
\* (0 land, 2 permanent water, 3 flooded; or 0 land, 1 water)
RunGrids(bThreeState) == GridsOver({<<1, MaxRunCols>>}, IF bThreeState THEN {0, 2, 3} ELSE {0, 1})

RunRawValues == {-9999, 7}

RunNoData == {-9999}

\* shapes the model's output grids may have: the flood map's, or another
RawShapes(shape) == {shape, <<1, 1>>}

RunWorldCover == GridsOver({<<1, 2>>}, {10, 80})

RunMaskTransform == Transform(0, 1)

RunRawTransform == Transform(1, 1)

RasterProfile(nodata, transform) == [driver |-> "GTiff", nodata |-> nodata, transform |-> transform]

InitLocals ==
    [sBaseName |-> Unbound, sPermanentWaterMaskFile |-> Unbound,
     pwMaskFile |-> MaskFile(NoMask, RunMaskTransform),
     sProcessedFloodMapName |-> Unbound, aiPermanentWaterMask |-> NoMask,
     sGeneratedDemFilename |-> Unbound,
     aoFinalOutputs |-> [WaterDepth |-> Unbound, WaterSurfaceElevation |-> Unbound],
     aiRawWDMData |-> UnboundArray, pWDMProfile |-> RasterProfile(NoneVal, RunRawTransform),
     aiRawWSEMData |-> UnboundArray,
     aiFinalWDMData |-> UnboundArray, aiFinalWSEMData |-> UnboundArray]

Init ==
    /\ cmp = Idle /\ cls = Idle /\ aln = Idle
    /\ params \in [bThreeState : BOOLEAN, bDeleteConvertedFile : BOOLEAN,
                    bGenerateDEM : BOOLEAN, bDeleteDEMFile : BOOLEAN,
                    bRemovePermanentWater : BOOLEAN, bProduceWSEMFile : BOOLEAN,
                    bSimulateHydrothresholds : BOOLEAN,
                    iPermanentWaterAsNoData : {DefaultSentinel},
                    FLOODMAP : RunFileNames, DEM : DemParams]
    /\ pc = "params"
    /\ status = "RUNNING"
    /\ info = FloodMapInfo(NoMask, "uint8")
    /\ loc = InitLocals
    /\ jobs = <<>>
    /\ ops = <<>>

\* the top-level handler (lines 397-400): log, updateStatus("ERROR"), return
Fail ==
    /\ status' = "ERROR"
    /\ pc' = "returned"

\* section 1 (lines 169-201): FLOODMAP is required and its file must exist
RetrieveParameters ==
    /\ pc = "params"
    /\ \E bExists \in BOOLEAN :
          IF ~Truthy(params.FLOODMAP) \/ ~bExists
          THEN Fail
          ELSE pc' = "read" /\ UNCHANGED status
    /\ UNCHANGED <<params, info, loc, jobs, ops, cmp, cls, aln>>

\* section 2 (lines 203-208): getFloodMapInfo, which may raise, and sBaseName
ReadFloodMap ==
    /\ pc = "read"
    /\ \E bReadable \in BOOLEAN, data \in RunGrids(params.bThreeState) :
          IF ~bReadable
          THEN Fail /\ UNCHANGED <<info, loc>>
          ELSE /\ info' = FloodMapInfo(data, "uint8")
               /\ loc' = [loc EXCEPT !.sBaseName = BaseName(params.FLOODMAP)]
               /\ pc' = "maskgen"
               /\ UNCHANGED status
    /\ UNCHANGED <<params, jobs, ops, cmp, cls, aln>>

\* f"{sBaseName}_PW_Mask.tif"
MaskOutputName(sBaseName) == sBaseName \o <<"_", "PW", "_", "Mask", ".tif">>

\* section 3 (lines 210-234): the external mask of the two-state case
ExternalMask ==
    /\ pc = "maskgen"
    /\ IF ~params.bThreeState /\ params.bRemovePermanentWater
       THEN \E sState \in JobStates, aiFullWCData \in RunWorldCover :
              LET sMaskOutputName == MaskOutputName(loc.sBaseName)
                  sFullWCFile == Replace(sMaskOutputName, ".tif", <<"_", "full", ".tif">>)
              IN  /\ jobs' = Append(jobs, Job("world_cover_extractor", sState))
                  /\ IF JobFailed(sState)
                     THEN Fail /\ UNCHANGED <<loc, ops>>
                     ELSE /\ ops' = ops \o <<Op("write", sMaskOutputName),
                                               Op("register", sMaskOutputName),
                                               Op("delete", sFullWCFile)>>
                          /\ loc' = [loc EXCEPT
                                       !.sPermanentWaterMaskFile = sMaskOutputName,
                                       !.pwMaskFile = MaskFile(Binarize(aiFullWCData), RunMaskTransform)]
                          /\ pc' = "classify"
                          /\ UNCHANGED status
       ELSE /\ loc' = [loc EXCEPT !.sPermanentWaterMaskFile = PyNone]
            /\ pc' = "classify"
            /\ UNCHANGED <<status, jobs, ops>>
    /\ UNCHANGED <<params, info, cmp, cls, aln>>

\* section 4 (lines 236-245): processFloodMap and the three-way branch on it
PreProcess ==
    /\ pc = "classify"
    /\ \E fault \in Faults :
          LET r == processFloodMap(params.FLOODMAP, info, params.bThreeState, fault)
          IN  /\ loc' = [loc EXCEPT !.sProcessedFloodMapName = r.name,
                                     !.aiPermanentWaterMask = r.mask]
              /\ ops' = ops \o r.ops
              /\ IF r.name = NO_WATER
                 THEN status' = "DONE" /\ pc' = "returned"
                 ELSE IF ~Truthy(r.name)
                 THEN Fail
                 ELSE pc' = "dem" /\ UNCHANGED status
    /\ UNCHANGED <<params, info, jobs, cmp, cls, aln>>

\* section 5 (lines 247-277): dem_extractor, only when no DEM was supplied
GenerateDEM ==
    /\ pc = "dem"
    /\ IF params.bGenerateDEM /\ ~Truthy(params.DEM)
       THEN \E sState \in JobStates, sOutput \in {PyNone, loc.sBaseName \o <<"_", "DEM", ".tif">>} :
              /\ jobs' = Append(jobs, Job("dem_extractor", sState))
              /\ IF JobFailed(sState) \/ ~Truthy(sOutput)
                 THEN Fail /\ UNCHANGED loc
                 ELSE /\ loc' = [loc EXCEPT !.sGeneratedDemFilename = sOutput]
                      /\ pc' = "hydro"
                      /\ UNCHANGED status
       ELSE pc' = "hydro" /\ UNCHANGED <<status, loc, jobs>>
    /\ UNCHANGED <<params, info, ops, cmp, cls, aln>>

FinalOutputs(sDepth, sSurface) == [WaterDepth |-> sDepth, WaterSurfaceElevation |-> sSurface]

\* sections 6 and 7 (lines 279-310): output names, then hydrothresholds is
\* executed or simulated; a payload without "Output" raises KeyError.  The
\* payload's WaterSurfaceElevation is read only under PRODUCE_WSEM_OUTPUT
\* (line 325), so it is drawn only then.
LaunchHydrothresholds ==
    /\ pc = "hydro"
    /\ LET sOutputWaterDepth == loc.sBaseName \o <<"_", "WDM", ".tif">>
           sOutputWaterSurface == loc.sBaseName \o <<"_", "WSEM", ".tif">>
       IN  IF ~params.bSimulateHydrothresholds
           THEN \E sState \in JobStates, bHasOutput \in BOOLEAN,
                   sDepth \in {PyNone, sOutputWaterDepth},
                   sSurface \in (IF params.bProduceWSEMFile THEN {PyNone, sOutputWaterSurface}
                                 ELSE {PyNone}) :
                  /\ jobs' = Append(jobs, Job("hydrothresholds", sState))
                  /\ IF JobFailed(sState) \/ ~bHasOutput
                     THEN Fail /\ UNCHANGED loc
                     ELSE /\ loc' = [loc EXCEPT !.aoFinalOutputs = FinalOutputs(sDepth, sSurface)]
                          /\ pc' = "readout"
                          /\ UNCHANGED status
           ELSE /\ loc' = [loc EXCEPT !.aoFinalOutputs =
                              FinalOutputs(sOutputWaterDepth,
                                           IF params.bProduceWSEMFile THEN sOutputWaterSurface ELSE PyNone)]
                /\ pc' = "readout"
                /\ UNCHANGED <<status, jobs>>
    /\ UNCHANGED <<params, info, ops, cmp, cls, aln>>

\* section 8 (lines 312-330): the raw outputs are read back; a file named in
\* the outputs may be unreadable, and an output not named leaves its array
\* unbound
ReadOutputs ==
    /\ pc = "readout"
    /\ \E bDepthReadable \in BOOLEAN, bSurfaceReadable \in BOOLEAN, nodata \in RunNoData,
          depthShape \in RawShapes(info.data.shape), surfaceShape \in RawShapes(info.data.shape) :
          \E aiDepth \in GridsOver({depthShape}, RunRawValues) :
             LET bReadsDepth == Truthy(loc.aoFinalOutputs.WaterDepth)
                 bReadsSurface == params.bProduceWSEMFile
                                  /\ Truthy(loc.aoFinalOutputs.WaterSurfaceElevation)
             IN  IF (bReadsDepth /\ ~bDepthReadable) \/ (bReadsSurface /\ ~bSurfaceReadable)
                 THEN Fail /\ UNCHANGED loc
                 ELSE /\ loc' = [loc EXCEPT
                                   !.aiRawWDMData = IF bReadsDepth THEN aiDepth ELSE UnboundArray,
                                   !.pWDMProfile = IF bReadsDepth THEN RasterProfile(nodata, RunRawTransform)
                                                   ELSE loc.pWDMProfile,
                                   !.aiRawWSEMData =
                                       IF bReadsSurface
                                       THEN Grid(surfaceShape, [i \in 1..NCells(surfaceShape) |-> 7])
                                       ELSE UnboundArray]
                      /\ pc' = "composite"
                      /\ UNCHANGED status
    /\ UNCHANGED <<params, info, jobs, ops, cmp, cls, aln>>

\* original_data == 2
PermanentMaskOf(original_data) == MapCells(original_data, LAMBDA v : CellEq(v, 2))

\* mutant: case 1 passes no flooded mask, so every valid raw cell is flooded
FloodedMaskMissing(original_data) == NoMask

\* original_data == 3
FloodedMaskOf(original_data) == MapCells(original_data, LAMBDA v : CellEq(v, 3))

\* the masks of the case taken (lines 332-376); the raw water-depth array is bound
CaseMasks ==
    IF params.bThreeState /\ params.bRemovePermanentWater
    THEN [pw |-> PermanentMaskOf(info.data), fl |-> FloodedMaskOf(info.data)]
    ELSE IF ~params.bThreeState /\ params.bRemovePermanentWater
            /\ Truthy(loc.sPermanentWaterMaskFile)
    THEN [pw |-> IsOne(AlignMask(loc.pwMaskFile, loc.aiRawWDMData.shape, loc.pWDMProfile.transform)),
          fl |-> NoMask]
    ELSE [pw |-> NoMask, fl |-> NoMask]

\* section 9, first half (lines 331-376): the composites of the case taken.  An
\* unbound raw water-depth array raises UnboundLocalError, a mask of another
\* shape IndexError.
Composite ==
    /\ pc = "composite"
    /\ IF loc.aiRawWDMData = UnboundArray
       THEN Fail /\ UNCHANGED loc
       ELSE LET m == CaseMasks
                depth == processOutputArray(loc.aiRawWDMData, loc.pWDMProfile, m.pw, m.fl,
                                            params.iPermanentWaterAsNoData)
                bSurface == params.bProduceWSEMFile /\ loc.aiRawWSEMData # UnboundArray
                surface == IF bSurface
                           THEN processOutputArray(loc.aiRawWSEMData, loc.pWDMProfile, m.pw, m.fl,
                                                   params.iPermanentWaterAsNoData)
                           ELSE Returned(UnboundArray)
            IN  IF depth.err \/ surface.err
                THEN Fail /\ UNCHANGED loc
                ELSE /\ loc' = [loc EXCEPT !.aiFinalWDMData = depth.grid,
                                            !.aiFinalWSEMData = surface.grid]
                     /\ pc' = "save"
                     /\ UNCHANGED status
    /\ UNCHANGED <<params, info, jobs, ops, cmp, cls, aln>>

\* afData.astype('float32') written by saveOutputWithNoData (lines 141-163)
saveOutputWithNoData(sOutputPath, afData) == SaveOp(sOutputPath, MapCells(afData, F32))

\* section 9, second half (lines 379-385): the water-depth composite is saved,
\* then `aiFinalWSEMData is not None` is evaluated when PRODUCE_WSEM_OUTPUT is
\* set, which raises UnboundLocalError if no surface composite was made
Save ==
    /\ pc = "save"
    /\ LET depthOp == saveOutputWithNoData(loc.aoFinalOutputs.WaterDepth, loc.aiFinalWDMData)
       IN  IF params.bProduceWSEMFile /\ loc.aiFinalWSEMData = UnboundArray
           THEN ops' = Append(ops, depthOp) /\ Fail
           ELSE /\ ops' = IF params.bProduceWSEMFile
                          THEN ops \o <<depthOp,
                                       saveOutputWithNoData(loc.aoFinalOutputs.WaterSurfaceElevation,
                                                            loc.aiFinalWSEMData)>>
                          ELSE Append(ops, depthOp)
                /\ pc' = "cleanup"
                /\ UNCHANGED status
    /\ UNCHANGED <<params, info, loc, jobs, cmp, cls, aln>>

\* section 10 (lines 388-395): the deletions, then updateStatus("DONE").
\* sGeneratedDemFilename is assigned only in the branch of section 5 that ran
\* dem_extractor; reading it unbound raises UnboundLocalError.
Cleanup ==
    /\ pc = "cleanup"
    /\ LET afterConverted == IF params.bDeleteConvertedFile /\ params.bThreeState
                             THEN Append(ops, Op("delete", loc.sProcessedFloodMapName))
                             ELSE ops
       IN  IF params.bDeleteDEMFile /\ params.bGenerateDEM
           THEN IF loc.sGeneratedDemFilename = Unbound
                THEN ops' = afterConverted /\ Fail
                ELSE /\ ops' = Append(afterConverted, Op("delete", loc.sGeneratedDemFilename))
                     /\ status' = "DONE"
                     /\ pc' = "returned"
           ELSE /\ ops' = afterConverted
                /\ status' = "DONE"
                /\ pc' = "returned"
    /\ UNCHANGED <<params, info, loc, jobs, cmp, cls, aln>>

Next ==
    \/ RetrieveParameters
    \/ ReadFloodMap
    \/ ExternalMask
    \/ PreProcess
    \/ GenerateDEM
    \/ LaunchHydrothresholds
    \/ ReadOutputs
    \/ Composite
    \/ Save
    \/ Cleanup

Spec == Init /\ [][Next]_vars

(***************************************************************************)
(* Properties of the launcher.                                             *)
(***************************************************************************)
\* the flood map was read
MapRead == ~info.data.isNone

MapCellsEqual(k) == {i \in 1..NCells(info.data.shape) : info.data.cells[i] = k}

\* the grid read has a water cell for the flag given
MapHasWaterCell ==
    IF params.bThreeState THEN MapCellsEqual(2) \cup MapCellsEqual(3) # {}
    ELSE MapCellsEqual(1) # {}

\* processFloodMap has returned
Classified == loc.sProcessedFloodMapName # Unbound

Executed(name) == \E k \in 1..Len(jobs) : jobs[k].name = name

SaveOps == {k \in 1..Len(ops) : ops[k].op = "save"}

\* the water-depth composite was saved
DepthSaved == \E k \in SaveOps : ops[k].name = loc.aoFinalOutputs.WaterDepth

\* the water-depth composite as saved
SavedDepth == ops[CHOOSE k \in SaveOps : ops[k].name = loc.aoFinalOutputs.WaterDepth].data

\* C5: the classifier yields the NO_WATER identifier only for a grid with no
\* water cell; a None identifier ends the run with status ERROR and no
\* hydrothresholds execution; a NO_WATER identifier ends it with status DONE.
C5_AsStated ==
    Classified =>
        /\ loc.sProcessedFloodMapName = NO_WATER => ~MapHasWaterCell
        /\ loc.sProcessedFloodMapName = NO_WATER => (pc = "returned" /\ status = "DONE")
        /\ loc.sProcessedFloodMapName = PyNone =>
              (pc = "returned" /\ status = "ERROR" /\ ~Executed("hydrothresholds"))

\* C6: a run on a two-state grid of zeros ends with the classifier's NO_WATER,
\* status DONE and no hydrothresholds execution, whatever the other parameters.
C6_AsStated ==
    (pc = "returned" /\ MapRead /\ ~params.bThreeState /\ MapCellsEqual(0) = 1..NCells(info.data.shape)) =>
        /\ loc.sProcessedFloodMapName = NO_WATER
        /\ status = "DONE"
        /\ ~Executed("hydrothresholds")

\* C7: a remote job that finished with a status other than DONE is the last
\* job the run executed, no composite was saved, and the run has returned with
\* status ERROR; a failed world_cover_extractor leaves no file written at all.
C7_RemoteFailureAborts ==
    \A k \in 1..Len(jobs) :
        jobs[k].status # "DONE" =>
            /\ k = Len(jobs)
            /\ SaveOps = {}
            /\ pc = "returned" /\ status = "ERROR"
            /\ jobs[k].name = "world_cover_extractor" => ops = <<>>

\* hydrothresholds failed after world_cover_extractor and dem_extractor succeeded
C7_Witness ==
    /\ Len(jobs) = 3
    /\ jobs[1].status = "DONE" /\ jobs[2].status = "DONE"
    /\ jobs[3].name = "hydrothresholds" /\ jobs[3].status = "STOPPED"
    /\ pc = "returned"

\* Scenario 1 ran to the saved composite: three-state with removal, the values
\* 0, 2 and 3 all present
Scenario1Saved ==
    /\ params.bThreeState /\ params.bRemovePermanentWater
    /\ MapRead
    /\ MapCellsEqual(0) # {} /\ MapCellsEqual(2) # {} /\ MapCellsEqual(3) # {}
    /\ DepthSaved

\* C8 as stated: the saved composite has the sentinel at exactly the cells
\* where the original grid is 2 and the raw model value at every other cell.
C8_AsStated ==
    Scenario1Saved =>
        \A i \in 1..NCells(info.data.shape) :
            /\ SavedDepth.cells[i] = params.iPermanentWaterAsNoData <=> i \in MapCellsEqual(2)
            /\ i \notin MapCellsEqual(2) => SavedDepth.cells[i] = loc.aiRawWDMData.cells[i]

\* C8 amended: the saved composite has the original grid's shape, the sentinel
\* at every cell where the original grid is 2, the raw model value (as
\* float32) at every cell where it is 3, and NaN at every other cell.
C8_Scenario1Composite ==
    Scenario1Saved =>
        /\ SavedDepth.shape = info.data.shape
        /\ \A i \in 1..NCells(info.data.shape) :
              /\ i \in MapCellsEqual(2) => SavedDepth.cells[i] = F32(params.iPermanentWaterAsNoData)
              /\ i \in MapCellsEqual(3) => SavedDepth.cells[i] = F32(loc.aiRawWDMData.cells[i])
              /\ i \notin MapCellsEqual(2) \cup MapCellsEqual(3) => SavedDepth.cells[i] = NaN

\* Scenario 1 saved with a valid raw value on a land cell and the sentinel's
\* value as raw value of a flooded cell
C8_Witness ==
    /\ Scenario1Saved
    /\ \E i \in MapCellsEqual(0) : loc.aiRawWDMData.cells[i] = 7
    /\ \E i \in MapCellsEqual(3) : loc.aiRawWDMData.cells[i] = params.iPermanentWaterAsNoData

\* every composite asked for was saved: the saving step completed
SavingCompleted ==
    /\ DepthSaved
    /\ params.bProduceWSEMFile =>
          \E k \in SaveOps : ops[k].name = loc.aoFinalOutputs.WaterSurfaceElevation

\* C10: a run in which hydrothresholds completed or was simulated and the
\* composites were saved ends with status DONE: the cleanup after saving never
\* turns the run into status ERROR.
C10_AsStated == (pc = "returned" /\ SavingCompleted) => status = "DONE"

\* the run ended by the NO_WATER early exit (lines 239-242) on a grid with no
\* water cell
NoWaterExit ==
    /\ pc = "returned" /\ status = "DONE"
    /\ loc.sProcessedFloodMapName = NO_WATER
    /\ ~MapHasWaterCell

\* C11: a run that ends by the NO_WATER early exit has executed no remote
\* processor and has written, registered and deleted no file, for every
\* parameter combination, two-state with permanent-water removal included.
C11_AsStated == NoWaterExit => (jobs = <<>> /\ ops = <<>>)

=============================================================================
